---------------------------- MODULE Spec2Model ----------------------------
(***************************************************************************)
(* A model of couchbase/ghistogram: the Histogram engine (bins, the two    *)
(* bin generators, the constructors, Add / Reset / Total / AddAll /        *)
(* EmitGraph / CallSync) and the CbHistogram twin.                         *)
(*                                                                         *)
(* uint64 is modelled as an unsigned word of WordBits bits: every          *)
(* arithmetic step of the code that can wrap is taken modulo Modulus, and  *)
(* math.MaxUint64 is MaxUint64 == Modulus - 1.  float64 growth factors are *)
(* exact rationals <<num, den>>; a float64 -> uint64 conversion truncates, *)
(* and a conversion whose operand does not fit the word yields the         *)
(* platform's out-of-range result, a value the environment picks.          *)
(***************************************************************************)
EXTENDS Integers, Sequences, FiniteSets, TLC

(***************************************************************************)
(* Bounds of the model.                                                    *)
(***************************************************************************)
WordBits == 10
MaxBins == 5
MaxFirst == 10
MaxValue == 2
MaxOps == 3
MaxCalls == 2

Modulus == 2 ^ WordBits
MaxUint64 == Modulus - 1

Hists == {"a", "b"}
Threads == {"t1", "t2"}
NoThread == "none"

Min(x, y) == IF x < y THEN x ELSE y

(***************************************************************************)
(* Machine arithmetic.                                                     *)
(***************************************************************************)
\* uint64(x) of a signed int x: two's complement reinterpretation.
ToUint(x) == x % Modulus

\* int(x) of a uint64 x (NewHistogram: _initial: int(binFirst)).
ToInt(x) == IF x >= Modulus \div 2 THEN x - Modulus ELSE x

\* uint64(float64(x) * f) for the rational f = <<num, den>>, den > 0:
\* truncation; oor is what the build yields when the product does not fit.
MulTrunc(x, f, oor) ==
    LET q == (x * f[1]) \div f[2]
    IN  IF q > MaxUint64 THEN oor ELSE q

RECURSIVE IntPow(_, _)
IntPow(b, e) == IF e = 0 THEN 1 ELSE b * IntPow(b, e - 1)

\* uint64(math.Pow(p, float64(e))) for the rational p = <<num, den>>.
PowTrunc(p, e, oor) ==
    LET q == IntPow(p[1], e) \div IntPow(p[2], e)
    IN  IF q > MaxUint64 THEN oor ELSE q

(***************************************************************************)
(* HistogramBin.                                                           *)
(***************************************************************************)
Bin(c, s, e) == [count |-> c, start |-> s, end |-> e]

\* atomic.AddUint64(&hb._count, amount)
incr_store(hb, amount) == [hb EXCEPT !.count = amount % Modulus]
incr(hb, amount) == [hb EXCEPT !.count = (hb.count + amount) % Modulus]

\* atomic.StoreUint64(&hb._count, val)
set_keep(hb, val) == hb
set(hb, val) == [hb EXCEPT !.count = val]

accepts(hb, value) ==
    value >= hb.start /\ (value < hb.end \/ value = MaxUint64)

(***************************************************************************)
(* Bin generators.  getBin returns the bin and the generator's next state. *)
(***************************************************************************)
MultipleGenerator(s, f, i) == [start |-> s, factor |-> f, initial |-> i]

MG_getBin(mg, oor) ==
    IF mg.factor[1] = 0
    THEN LET next == (mg.start + ToUint(mg.initial)) % Modulus
         IN  [bin |-> Bin(0, mg.start, next),
              gen |-> [mg EXCEPT !.start = next]]
    ELSE IF mg.initial # -1
         THEN [bin |-> Bin(0, ToUint(mg.initial),
                           MulTrunc(mg.start, mg.factor, oor)),
               gen |-> [mg EXCEPT !.initial = -1]]
         ELSE LET s == MulTrunc(mg.start, mg.factor, oor)
              IN  [bin |-> Bin(0, s, MulTrunc(s, mg.factor, oor)),
                   gen |-> [mg EXCEPT !.start = s]]

ExponentialGenerator(s, p) == [start |-> s, power |-> p]

EG_getBin(eg, oor) ==
    [bin |-> Bin(0, PowTrunc(eg.power, eg.start, oor),
                    PowTrunc(eg.power, eg.start + 1, oor)),
     gen |-> [eg EXCEPT !.start = eg.start + 1]]

(***************************************************************************)
(* Filling and completing the bin array.                                   *)
(***************************************************************************)
\* Was the array found gap-free, overlap-free and reaching MaxUint64?
RECURSIVE verifyFrom(_, _, _)
verifyFrom(bins, i, prev) ==
    IF i > Len(bins) THEN prev = MaxUint64
    ELSE IF bins[i].start # prev THEN FALSE
    ELSE verifyFrom(bins, i + 1, bins[i].end)

verify(bins) == verifyFrom(bins, 1, 0)

\* Adds first and last bins if necessary.  The result of verify is dropped
\* by the code, so the array is returned whatever verify says.
completeBinArray_nofloor(bins) ==
    IF bins[Len(bins)].end < MaxUint64
    THEN Append(bins, Bin(0, bins[Len(bins)].end, MaxUint64))
    ELSE bins
completeBinArray_no_last(bins) ==
    IF bins[1].start > 0 THEN <<Bin(0, 0, bins[1].start)>> \o bins ELSE bins
completeBinArray(bins) ==
    LET withFirst == IF bins[1].start > 0
                     THEN <<Bin(0, 0, bins[1].start)>> \o bins
                     ELSE bins
        last == withFirst[Len(withFirst)].end
    IN  IF last < MaxUint64
        THEN Append(withFirst, Bin(0, last, MaxUint64))
        ELSE withFirst

RECURSIVE fillMultiplesLoop(_, _, _, _)
fillMultiplesLoop(mg, n, oor, acc) ==
    IF n = 0 THEN acc
    ELSE LET r == MG_getBin(mg, oor)
         IN  fillMultiplesLoop(r.gen, n - 1, oor, Append(acc, r.bin))

fillMultiples(mg, numBins, oor) ==
    completeBinArray(fillMultiplesLoop(mg, numBins, oor, <<>>))

RECURSIVE fillExponentialLoop(_, _, _, _)
fillExponentialLoop(eg, n, oor, acc) ==
    IF n = 0 THEN acc
    ELSE LET r == EG_getBin(eg, oor)
         IN  fillExponentialLoop(r.gen, n - 1, oor, Append(acc, r.bin))

fillExponential(eg, numBins, oor) ==
    completeBinArray(fillExponentialLoop(eg, numBins, oor, <<>>))

(***************************************************************************)
(* Constructors.                                                           *)
(***************************************************************************)
Histogram(name, bins) == [name |-> name, bins |-> bins]

NewHistogram(numBins, binFirst, binGrowthFactor, oor) ==
    Histogram("Histogram",
              fillMultiples(MultipleGenerator(binFirst, binGrowthFactor,
                                              ToInt(binFirst)),
                            numBins, oor))

Two == <<2, 1>>
LeqOne(f) == f[1] <= f[2]

NewExpHistogram_no_default(name, numBins, growthFactor, oor) ==
    Histogram(name, fillExponential(ExponentialGenerator(0, growthFactor),
                                    numBins, oor))
NewExpHistogram(name, numBins, growthFactor, oor) ==
    LET g == IF LeqOne(growthFactor) THEN Two ELSE growthFactor
    IN  Histogram(name, fillExponential(ExponentialGenerator(0, g),
                                        numBins, oor))

\* CbHistogram.fill is fillExponential + completeBinArray in one body.
NewCbHistogram(name, n, oor) ==
    Histogram(name, fillExponential(ExponentialGenerator(0, Two), n, oor))


(***************************************************************************)
(* Histogram operations, as functions of the histogram(s) they touch.      *)
(***************************************************************************)
\* Index of the first bin with amount < end, from i on; 0 if there is none.
RECURSIVE firstBelowEnd(_, _, _)
firstBelowEnd(bins, amount, i) ==
    IF i > Len(bins) THEN 0
    ELSE IF amount < bins[i].end THEN i
    ELSE firstBelowEnd(bins, amount, i + 1)

findBin_inclusive(bins, amount) ==
    LET RECURSIVE firstAtMostEnd(_)
        firstAtMostEnd(i) ==
            IF i > Len(bins) THEN Len(bins)
            ELSE IF amount <= bins[i].end THEN i
            ELSE firstAtMostEnd(i + 1)
    IN  IF amount = MaxUint64 THEN Len(bins) ELSE firstAtMostEnd(1)
findBin(bins, amount) ==
    IF amount = MaxUint64 THEN Len(bins)
    ELSE LET f == firstBelowEnd(bins, amount, 1)
             index == IF f = 0 THEN Len(bins) ELSE f
         IN  IF ~accepts(bins[index], amount) THEN Len(bins) ELSE index

\* Histogram.Add / CbHistogram.Add, the part under the lock.
Add_ignores_count(gh, amount, count) ==
    [gh EXCEPT !.bins[findBin(gh.bins, amount)] = incr(@, 1)]
Add(gh, amount, count) ==
    [gh EXCEPT !.bins[findBin(gh.bins, amount)] = incr(@, count)]

Reset(gh) ==
    [gh EXCEPT !.bins = [i \in 1..Len(gh.bins) |-> set(gh.bins[i], 0)]]

RECURSIVE sumCounts(_, _)
sumCounts(bins, i) ==
    IF i > Len(bins) THEN 0
    ELSE (bins[i].count + sumCounts(bins, i + 1)) % Modulus

\* A Total whose loop stops one bin short (i < len(_bins) - 1).
Total_skipLast(gh) == sumCounts(SubSeq(gh.bins, 1, Len(gh.bins) - 1), 1)
\* Histogram.Total / CbHistogram.Total: the sum of the counts of all bins.
Total(gh) == sumCounts(gh.bins, 1)

\* The loop of AddAll: bins of gh after folding src in.
mergeBins_assign(ghBins, srcBins) ==
    [i \in 1..Len(srcBins) |->
        IF ghBins[i].start = srcBins[i].start /\ ghBins[i].end = srcBins[i].end
        THEN [ghBins[i] EXCEPT !.count = srcBins[i].count]
        ELSE ghBins[i]]
mergeBins(ghBins, srcBins) ==
    [i \in 1..Len(srcBins) |->
        IF ghBins[i].start = srcBins[i].start /\ ghBins[i].end = srcBins[i].end
        THEN [ghBins[i] EXCEPT !.count = (@ + srcBins[i].count) % Modulus]
        ELSE ghBins[i]]

\* copy(src._bins, gh._bins): whole bins, boundaries included.
copyBins(dst, from) ==
    [i \in 1..Len(dst) |-> IF i <= Len(from) THEN from[i] ELSE dst[i]]

\* AddAll(src) on gh: the pair of histograms it leaves (gh # src).
AddAll(gh, src) ==
    IF Len(gh.bins) # Len(src.bins)
    THEN [gh |-> gh, src |-> src]
    ELSE LET merged == mergeBins(gh.bins, src.bins)
         IN  [gh  |-> [gh EXCEPT !.bins = merged],
              src |-> [src EXCEPT !.bins = copyBins(src.bins, merged)]]

(***************************************************************************)
(* EmitGraph.  The text is modelled as a record: the header's name and     *)
(* total, then one line per emitted bin with the fields the format prints. *)
(***************************************************************************)
BarLen == 30

RECURSIVE Digits(_)
Digits(n) == IF n < 10 THEN 1 ELSE 1 + Digits(n \div 10)

\* len(fmt.Sprintf("%v - %v", start, end)); Histogram.EmitGraph (infLabel)
\* prints "inf" for an end of MaxUint64, CbHistogram.EmitGraph the number.
rangeLen(hb, infLabel) ==
    Digits(hb.start) + 3
        + (IF infLabel /\ hb.end = MaxUint64 THEN 3 ELSE Digits(hb.end))

RECURSIVE maxCountFrom(_, _)
maxCountFrom(bins, i) ==
    IF i > Len(bins) THEN 0
    ELSE LET m == maxCountFrom(bins, i + 1)
         IN  IF m < bins[i].count THEN bins[i].count ELSE m

RECURSIVE longestRangeFrom(_, _, _)
longestRangeFrom(bins, i, infLabel) ==
    IF i > Len(bins) THEN 0
    ELSE LET m == longestRangeFrom(bins, i + 1, infLabel)
         IN  IF bins[i].count > 0 /\ m < rangeLen(bins[i], infLabel)
             THEN rangeLen(bins[i], infLabel) ELSE m

\* float64(n) of a uint64 n: a float64 keeps 53 significant bits of the 64,
\* here MantissaBits of the WordBits, and the conversion rounds to the
\* nearest such number, a tie going to the even mantissa.  The result may be
\* 2^WordBits, which a float holds exactly.
MantissaBits == WordBits - 2

RECURSIVE BitLen(_)
BitLen(n) == IF n = 0 THEN 0 ELSE 1 + BitLen(n \div 2)

float64(n) ==
    IF BitLen(n) <= MantissaBits THEN n
    ELSE LET ulp  == 2 ^ (BitLen(n) - MantissaBits)
             mant == n \div ulp
             rest == n % ulp
         IN  IF 2 * rest < ulp THEN mant * ulp
             ELSE IF 2 * rest > ulp THEN (mant + 1) * ulp
             ELSE IF mant % 2 = 0 THEN mant * ulp
             ELSE (mant + 1) * ulp

\* 100.0*(float64(binCount)/float64(totalCount)) under %7.2f, in hundredths
\* of a percent; a zero total (the sum wrapped) prints +Inf.
percent(binCount, totalCount) ==
    IF totalCount = 0 THEN -1
    ELSE (20000 * float64(binCount) + float64(totalCount))
             \div (2 * float64(totalCount))

\* int(math.Floor(barLen * (float64(binCount) / float64(maxCount))))
barWant(binCount, maxCount) ==
    (BarLen * float64(binCount)) \div float64(maxCount)

RECURSIVE emitLines(_, _, _, _, _, _)
emitLines(bins, i, totalCount, maxCount, longestRange, infLabel) ==
    IF i > Len(bins) THEN <<>>
    ELSE LET rest == emitLines(bins, i + 1, totalCount, maxCount,
                               longestRange, infLabel)
         IN  IF bins[i].count = 0 THEN rest
             ELSE <<[bin     |-> i,
                     start   |-> bins[i].start,
                     end     |-> bins[i].end,
                     inf     |-> infLabel /\ bins[i].end = MaxUint64,
                     padding |-> longestRange - rangeLen(bins[i], infLabel),
                     count   |-> bins[i].count,
                     pct     |-> percent(bins[i].count, totalCount),
                     bar     |-> barWant(bins[i].count, maxCount)]>> \o rest

EmitGraph_every_bin(gh, infLabel) ==
    LET maxCount == maxCountFrom(gh.bins, 1)
        longestRange == longestRangeFrom(gh.bins, 1, infLabel)
    IN  [name  |-> gh.name,
         total |-> Total(gh),
         lines |-> [i \in 1..Len(gh.bins) |->
                      [bin     |-> i,
                       start   |-> gh.bins[i].start,
                       end     |-> gh.bins[i].end,
                       inf     |-> infLabel /\ gh.bins[i].end = MaxUint64,
                       padding |-> longestRange
                                       - rangeLen(gh.bins[i], infLabel),
                       count   |-> gh.bins[i].count,
                       pct     |-> percent(gh.bins[i].count, Total(gh)),
                       bar     |-> IF maxCount = 0 THEN 0
                                   ELSE barWant(gh.bins[i].count, maxCount)]]]

EmitGraph(gh, infLabel) ==
    [name  |-> gh.name,
     total |-> Total(gh),
     lines |-> emitLines(gh.bins, 1, Total(gh), maxCountFrom(gh.bins, 1),
                         longestRangeFrom(gh.bins, 1, infLabel), infLabel)]

NoOutput == [name |-> "", total |-> 0, lines |-> <<>>]

(***************************************************************************)
(* State.                                                                  *)
(***************************************************************************)
VARIABLES
    hist,     \* hist[h]: the histogram h (_name, _bins); NoHist before New*
    lock,     \* lock[h]: the holder of h.m, or NoThread
    cons,     \* cons[h]: the parameters h was constructed with
    lastOp,   \* the call that returned last
    ret,      \* what it returned, if it was Total()
    out,      \* what it wrote, if it was EmitGraph()
    added,    \* added[h]: sum of the count arguments of Add since New/Reset
    pure,     \* pure[h]: no AddAll has touched h since New/Reset
    nops,     \* number of calls made
    pc,       \* pc[t]: where thread t stands in its call
    call,     \* call[t]: the call thread t is in (or made last), with locals
    fold,     \* the run of gh.AddAll(src) calls under way, and where it began
    hmap,     \* the destination Histograms map: name -> histogram (or nil)
    srcmap,   \* the source Histograms map
    err       \* what Histograms.AddAll returned last

vars == <<hist, lock, cons, lastOp, ret, out, added, pure, nops, pc, call,
          fold, hmap, srcmap, err>>
maps == <<hmap, srcmap, err>>
aux == <<fold, hmap, srcmap, err>>

NoHist == Histogram("", <<>>)
NoCons == [kind |-> "none", numBins |-> 0, binFirst |-> 0,
           factor |-> <<0, 1>>, oor |-> 0]
Op(op, h, src, v, c) == [op |-> op, h |-> h, src |-> src, v |-> v, c |-> c]
NoOp == Op("none", "", "", 0, 0)
Call(op, h, src, v, c) ==
    [op |-> op, h |-> h, src |-> src, v |-> v, c |-> c, acc |-> 0]
NoCall == Call("none", "", "", 0, 0)
\* gh.AddAll(src) has run k times in a row; gh0 and src0 are the bin counts
\* of gh and src before the first of these calls.
Fold(gh, src, k, gh0, src0) ==
    [gh |-> gh, src |-> src, k |-> k, gh0 |-> gh0, src0 |-> src0]
NoFold == Fold("", "", 0, <<>>, <<>>)
Names == {"x", "y"}
NoMap == [n \in Names |-> NoHist]
NoError == "nil"
NoAux ==
    /\ fold = NoFold
    /\ hmap = NoMap
    /\ srcmap = NoMap
    /\ err = NoError

(***************************************************************************)
(* Inputs.                                                                 *)
(***************************************************************************)
Values == (0..MaxValue) \cup {MaxUint64 - 1, MaxUint64}
Counts == {1, MaxUint64}
Factors == {<<0, 1>>, <<1, 2>>, <<1, 1>>, <<3, 2>>, <<2, 1>>, <<3, 1>>}
Firsts == (0..MaxFirst) \cup {MaxUint64 \div 3, Modulus \div 2, MaxUint64}
\* What an out-of-range float64 -> uint64 conversion yields: 0 or 2^63 on
\* amd64, the saturated maximum on arm64.
OutOfRange == {0, Modulus \div 2, MaxUint64}
\* The (amount, count) pairs of the callbacks handed to CallSync.
CallbackAdds == {<<0, 1>>, <<MaxUint64, 2>>}

Cons(kind, numBins, binFirst, factor, oor) ==
    [kind |-> kind, numBins |-> numBins, binFirst |-> binFirst,
     factor |-> factor, oor |-> oor]

\* A *Histogram (AddAll, CallSync and the "inf" label are its alone), as
\* opposed to a *CbHistogram.
IsHistogram(p) == p.kind \in {"mult", "exp"}

Construct(h, p) ==
    CASE p.kind = "mult" ->
            NewHistogram(p.numBins, p.binFirst, p.factor, p.oor)
      [] p.kind = "exp" -> NewExpHistogram(h, p.numBins, p.factor, p.oor)
      [] p.kind = "cb" -> NewCbHistogram(h, p.numBins, p.oor)

\* The pairs of histograms (a, b) the operation specifications start from.
ShapeA == Cons("mult", 1, 2, <<2, 1>>, 0)    \* 0-2 2-4 4-inf
ShapeB == Cons("mult", 1, 2, <<3, 1>>, 0)    \* 0-2 2-6 6-inf
ShapeC == Cons("exp",  2, 0, <<2, 1>>, 0)    \* 0-1 1-2 2-4 4-inf
ShapeD == Cons("cb",   1, 0, <<2, 1>>, 0)    \* 0-1 1-2 2-inf
ShapeE == Cons("mult", 1, 4, <<1, 2>>, 0)    \* 0-4 4-2 2-inf
ShapeF == Cons("mult", 2, 1, <<0, 1>>, 0)    \* 0-1 1-2 2-3 3-inf
ShapeG == Cons("exp",  1, 0, <<2, 1>>, 0)    \* 0-1 1-2 2-inf

InitPairs ==
    { <<ShapeA, ShapeA>>, <<ShapeA, ShapeB>>, <<ShapeA, ShapeC>>,
      <<ShapeD, ShapeD>>, <<ShapeE, ShapeA>>, <<ShapeC, ShapeF>>,
      <<ShapeG, ShapeB>> }

(***************************************************************************)
(* Specification Spec: one caller, every call runs to its return.          *)
(***************************************************************************)
Init ==
    /\ \E p \in InitPairs :
          /\ cons = [h \in Hists |-> IF h = "a" THEN p[1] ELSE p[2]]
          /\ hist = [h \in Hists |->
                        Construct(h, IF h = "a" THEN p[1] ELSE p[2])]
    /\ lock = [h \in Hists |-> NoThread]
    /\ lastOp = NoOp
    /\ ret = 0
    /\ out = NoOutput
    /\ added = [h \in Hists |-> 0]
    /\ pure = [h \in Hists |-> TRUE]
    /\ nops = 0
    /\ pc = [t \in Threads |-> "idle"]
    /\ call = [t \in Threads |-> NoCall]
    /\ NoAux

AddCall(h, amount, count) ==
    /\ nops < MaxOps
    /\ lock[h] = NoThread
    /\ hist' = [hist EXCEPT ![h] = Add(@, amount, count)]
    /\ added' = [added EXCEPT ![h] = @ + count]
    /\ lastOp' = Op("Add", h, "", amount, count)
    /\ nops' = nops + 1
    /\ ret' = 0
    /\ out' = NoOutput
    /\ UNCHANGED <<lock, cons, pure, pc, call>>
    /\ fold' = NoFold
    /\ UNCHANGED maps

ResetCall(h) ==
    /\ nops < MaxOps
    /\ lock[h] = NoThread
    /\ hist' = [hist EXCEPT ![h] = Reset(@)]
    /\ added' = [added EXCEPT ![h] = 0]
    /\ pure' = [pure EXCEPT ![h] = TRUE]
    /\ lastOp' = Op("Reset", h, "", 0, 0)
    /\ nops' = nops + 1
    /\ ret' = 0
    /\ out' = NoOutput
    /\ UNCHANGED <<lock, cons, pc, call>>
    /\ fold' = NoFold
    /\ UNCHANGED maps

TotalCall(h) ==
    /\ nops < MaxOps
    /\ lock[h] = NoThread
    /\ ret' = Total(hist[h])
    /\ lastOp' = Op("Total", h, "", 0, 0)
    /\ nops' = nops + 1
    /\ out' = NoOutput
    /\ UNCHANGED <<hist, lock, cons, added, pure, pc, call>>
    /\ UNCHANGED aux

\* gh.AddAll(src), gh # src (gh.AddAll(gh) locks gh.m twice: see SpecConc).
AddAllCall(gh, src) ==
    /\ nops < MaxOps
    /\ gh # src
    /\ IsHistogram(cons[gh]) /\ IsHistogram(cons[src])
    /\ lock[gh] = NoThread /\ lock[src] = NoThread
    /\ LET r == AddAll(hist[gh], hist[src])
       IN  hist' = [hist EXCEPT ![gh] = r.gh, ![src] = r.src]
    /\ pure' = IF Len(hist[gh].bins) # Len(hist[src].bins) THEN pure
               ELSE [pure EXCEPT ![gh] = FALSE, ![src] = FALSE]
    /\ lastOp' = Op("AddAll", gh, src, 0, 0)
    /\ nops' = nops + 1
    /\ ret' = 0
    /\ out' = NoOutput
    /\ UNCHANGED <<lock, cons, added, pc, call>>
    /\ fold' = IF fold.k > 0 /\ fold.gh = gh /\ fold.src = src
               THEN [fold EXCEPT !.k = @ + 1]
               ELSE Fold(gh, src, 1,
                         [i \in 1..Len(hist[gh].bins) |-> hist[gh].bins[i].count],
                         [i \in 1..Len(hist[src].bins) |->
                             hist[src].bins[i].count])
    /\ UNCHANGED maps

EmitGraphCall(h) ==
    /\ nops < MaxOps
    /\ lock[h] = NoThread
    /\ out' = EmitGraph(hist[h], IsHistogram(cons[h]))
    /\ lastOp' = Op("EmitGraph", h, "", 0, 0)
    /\ nops' = nops + 1
    /\ ret' = 0
    /\ UNCHANGED <<hist, lock, cons, added, pure, pc, call>>
    /\ UNCHANGED aux

\* gh.CallSync(f) with a callback that does nothing.
CallSyncNop(h) ==
    /\ nops < MaxOps
    /\ IsHistogram(cons[h])
    /\ lock[h] = NoThread
    /\ lastOp' = Op("CallSync", h, "", 0, 0)
    /\ nops' = nops + 1
    /\ ret' = 0
    /\ out' = NoOutput
    /\ UNCHANGED <<hist, lock, cons, added, pure, pc, call>>
    /\ UNCHANGED aux

\* gh.CallSync(f) with a callback that calls other.Add(amount, count).
CallSyncAdd(h, other, amount, count) ==
    /\ nops < MaxOps
    /\ other # h
    /\ IsHistogram(cons[h])
    /\ lock[h] = NoThread /\ lock[other] = NoThread
    /\ hist' = [hist EXCEPT ![other] = Add(@, amount, count)]
    /\ added' = [added EXCEPT ![other] = @ + count]
    /\ lastOp' = Op("CallSync", h, other, amount, count)
    /\ nops' = nops + 1
    /\ ret' = 0
    /\ out' = NoOutput
    /\ UNCHANGED <<lock, cons, pure, pc, call>>
    /\ fold' = NoFold
    /\ UNCHANGED maps

Next ==
    \/ \E h \in Hists, v \in Values, c \in Counts : AddCall(h, v, c)
    \/ \E h \in Hists : ResetCall(h)
    \/ \E h \in Hists : TotalCall(h)
    \/ \E g \in Hists, s \in Hists : AddAllCall(g, s)
    \/ \E h \in Hists : EmitGraphCall(h)
    \/ \E h \in Hists : CallSyncNop(h)
    \/ \E h \in Hists, o \in Hists, cb \in CallbackAdds :
          CallSyncAdd(h, o, cb[1], cb[2])

Spec == Init /\ [][Next]_vars

(***************************************************************************)
(* Specification SpecNew: the constructors, over bounded parameters.       *)
(***************************************************************************)
InitNew ==
    /\ hist = [h \in Hists |-> NoHist]
    /\ cons = [h \in Hists |-> NoCons]
    /\ lock = [h \in Hists |-> NoThread]
    /\ lastOp = NoOp
    /\ ret = 0
    /\ out = NoOutput
    /\ added = [h \in Hists |-> 0]
    /\ pure = [h \in Hists |-> TRUE]
    /\ nops = 0
    /\ pc = [t \in Threads |-> "idle"]
    /\ call = [t \in Threads |-> NoCall]
    /\ NoAux

\* One construction per behaviour: the constructors share no state.
NewHistogramCall(h, numBins, binFirst, binGrowthFactor, oor) ==
    /\ \A g \in Hists : hist[g] = NoHist
    /\ hist' = [hist EXCEPT
                  ![h] = NewHistogram(numBins, binFirst, binGrowthFactor, oor)]
    /\ cons' = [cons EXCEPT
                  ![h] = Cons("mult", numBins, binFirst, binGrowthFactor, oor)]
    /\ lastOp' = Op("NewHistogram", h, "", 0, 0)
    /\ UNCHANGED <<lock, ret, out, added, pure, nops, pc, call>>
    /\ UNCHANGED aux

NewExpHistogramCall(h, numBins, growthFactor, oor) ==
    /\ \A g \in Hists : hist[g] = NoHist
    /\ hist' = [hist EXCEPT
                  ![h] = NewExpHistogram(h, numBins, growthFactor, oor)]
    /\ cons' = [cons EXCEPT ![h] = Cons("exp", numBins, 0, growthFactor, oor)]
    /\ lastOp' = Op("NewExpHistogram", h, "", 0, 0)
    /\ UNCHANGED <<lock, ret, out, added, pure, nops, pc, call>>
    /\ UNCHANGED aux

NewCbHistogramCall(h, n, oor) ==
    /\ \A g \in Hists : hist[g] = NoHist
    /\ hist' = [hist EXCEPT ![h] = NewCbHistogram(h, n, oor)]
    /\ cons' = [cons EXCEPT ![h] = Cons("cb", n, 0, Two, oor)]
    /\ lastOp' = Op("NewCbHistogram", h, "", 0, 0)
    /\ UNCHANGED <<lock, ret, out, added, pure, nops, pc, call>>
    /\ UNCHANGED aux

NextNew ==
    \/ \E h \in Hists, n \in 1..MaxBins, w \in Firsts, f \in Factors,
          oor \in OutOfRange : NewHistogramCall(h, n, w, f, oor)
    \/ \E h \in Hists, n \in 1..MaxBins, f \in Factors, oor \in OutOfRange :
          NewExpHistogramCall(h, n, f, oor)
    \/ \E h \in Hists, n \in 1..MaxBins, oor \in OutOfRange :
          NewCbHistogramCall(h, n, oor)

SpecNew == InitNew /\ [][NextNew]_vars

(***************************************************************************)
(* Specification SpecConc: threads calling into the two histograms, one    *)
(* step per lock operation and per critical section.  sync.Mutex is not    *)
(* reentrant: Lock blocks while the mutex is held, by whomever.            *)
(***************************************************************************)
ConcValues == {0, MaxUint64}
ConcPairs == { <<ShapeA, ShapeA>>, <<ShapeA, ShapeB>>, <<ShapeD, ShapeD>> }

InitConc ==
    /\ \E p \in ConcPairs :
          /\ cons = [h \in Hists |-> IF h = "a" THEN p[1] ELSE p[2]]
          /\ hist = [h \in Hists |->
                        Construct(h, IF h = "a" THEN p[1] ELSE p[2])]
    /\ lock = [h \in Hists |-> NoThread]
    /\ lastOp = NoOp
    /\ ret = 0
    /\ out = NoOutput
    /\ added = [h \in Hists |-> 0]
    /\ pure = [h \in Hists |-> TRUE]
    /\ nops = 0
    /\ pc = [t \in Threads |-> "idle"]
    /\ call = [t \in Threads |-> NoCall]
    /\ NoAux

\* m.Lock() / m.Unlock()
MutexFree_never_held(h) == TRUE
MutexFree(h) == lock[h] = NoThread
Locked(h, t) == [lock EXCEPT ![h] = t]
Unlocked(h) == [lock EXCEPT ![h] = NoThread]

\* A thread enters Add, Reset or Total: what it does next is gh.m.Lock().
BeginAdd(t, h, amount, count) ==
    /\ pc[t] = "idle"
    /\ nops < MaxCalls
    /\ call' = [call EXCEPT ![t] = Call("Add", h, "", amount, count)]
    /\ pc' = [pc EXCEPT ![t] = "lock"]
    /\ nops' = nops + 1
    /\ UNCHANGED <<hist, lock, cons, lastOp, ret, out, added, pure>>
    /\ UNCHANGED aux

BeginReset(t, h) ==
    /\ pc[t] = "idle"
    /\ nops < MaxCalls
    /\ call' = [call EXCEPT ![t] = Call("Reset", h, "", 0, 0)]
    /\ pc' = [pc EXCEPT ![t] = "lock"]
    /\ nops' = nops + 1
    /\ UNCHANGED <<hist, lock, cons, lastOp, ret, out, added, pure>>
    /\ UNCHANGED aux

BeginTotal(t, h) ==
    /\ pc[t] = "idle"
    /\ nops < MaxCalls
    /\ call' = [call EXCEPT ![t] = Call("Total", h, "", 0, 0)]
    /\ pc' = [pc EXCEPT ![t] = "lock"]
    /\ nops' = nops + 1
    /\ UNCHANGED <<hist, lock, cons, lastOp, ret, out, added, pure>>
    /\ UNCHANGED aux

\* gh.m.Lock() of Add, Reset, Total.
Lock_no_wait(t) ==
    /\ pc[t] = "lock"
    /\ lock' = Locked(call[t].h, t)
    /\ pc' = [pc EXCEPT ![t] = "body"]
    /\ UNCHANGED <<hist, cons, lastOp, ret, out, added, pure, nops, call>>
    /\ UNCHANGED aux
Lock(t) ==
    /\ pc[t] = "lock"
    /\ MutexFree(call[t].h)
    /\ lock' = Locked(call[t].h, t)
    /\ pc' = [pc EXCEPT ![t] = "body"]
    /\ UNCHANGED <<hist, cons, lastOp, ret, out, added, pure, nops, call>>
    /\ UNCHANGED aux

AddBody(t) ==
    /\ pc[t] = "body" /\ call[t].op = "Add"
    /\ hist' = [hist EXCEPT ![call[t].h] = Add(@, call[t].v, call[t].c)]
    /\ added' = [added EXCEPT ![call[t].h] = @ + call[t].c]
    /\ pc' = [pc EXCEPT ![t] = "unlock"]
    /\ UNCHANGED <<lock, cons, lastOp, ret, out, pure, nops, call>>
    /\ UNCHANGED aux

ResetBody(t) ==
    /\ pc[t] = "body" /\ call[t].op = "Reset"
    /\ hist' = [hist EXCEPT ![call[t].h] = Reset(@)]
    /\ added' = [added EXCEPT ![call[t].h] = 0]
    /\ pure' = [pure EXCEPT ![call[t].h] = TRUE]
    /\ pc' = [pc EXCEPT ![t] = "unlock"]
    /\ UNCHANGED <<lock, cons, lastOp, ret, out, nops, call>>
    /\ UNCHANGED aux

TotalBody(t) ==
    /\ pc[t] = "body" /\ call[t].op = "Total"
    /\ call' = [call EXCEPT ![t].acc = Total(hist[call[t].h])]
    /\ pc' = [pc EXCEPT ![t] = "unlock"]
    /\ UNCHANGED <<hist, lock, cons, lastOp, ret, out, added, pure, nops>>
    /\ UNCHANGED aux

\* gh.m.Unlock() and the return of Add, Reset, Total.
Unlock(t) ==
    /\ pc[t] = "unlock"
    /\ lock' = Unlocked(call[t].h)
    /\ pc' = [pc EXCEPT ![t] = "idle"]
    /\ lastOp' = Op(call[t].op, call[t].h, "", call[t].v, call[t].c)
    /\ ret' = call[t].acc
    /\ out' = NoOutput
    /\ UNCHANGED <<hist, cons, added, pure, nops, call>>
    /\ UNCHANGED aux

\* gh.AddAll(src) up to its first Lock: the bin counts are compared without
\* a lock, and a mismatch returns at once.
BeginAddAll(t, gh, src) ==
    /\ pc[t] = "idle"
    /\ nops < MaxCalls
    /\ IsHistogram(cons[gh]) /\ IsHistogram(cons[src])
    /\ nops' = nops + 1
    /\ IF Len(hist[gh].bins) # Len(hist[src].bins)
       THEN /\ lastOp' = Op("AddAll", gh, src, 0, 0)
            /\ ret' = 0
            /\ out' = NoOutput
            /\ UNCHANGED <<pc, call>>
       ELSE /\ call' = [call EXCEPT ![t] = Call("AddAll", gh, src, 0, 0)]
            /\ pc' = [pc EXCEPT ![t] = "lockSrc"]
            /\ UNCHANGED <<lastOp, ret, out>>
    /\ UNCHANGED <<hist, lock, cons, added, pure>>
    /\ UNCHANGED aux

\* src.m.Lock()
LockSrc(t) ==
    /\ pc[t] = "lockSrc"
    /\ MutexFree(call[t].src)
    /\ lock' = Locked(call[t].src, t)
    /\ pc' = [pc EXCEPT ![t] = "lockGh"]
    /\ UNCHANGED <<hist, cons, lastOp, ret, out, added, pure, nops, call>>
    /\ UNCHANGED aux

\* gh.m.Lock()
LockGh(t) ==
    /\ pc[t] = "lockGh"
    /\ MutexFree(call[t].h)
    /\ lock' = Locked(call[t].h, t)
    /\ pc' = [pc EXCEPT ![t] = "merge"]
    /\ UNCHANGED <<hist, cons, lastOp, ret, out, added, pure, nops, call>>
    /\ UNCHANGED aux

\* The loop and the copy, under both locks.
AddAllBody(t) ==
    /\ pc[t] = "merge"
    /\ LET r == AddAll(hist[call[t].h], hist[call[t].src])
       IN  hist' = [hist EXCEPT ![call[t].h] = r.gh, ![call[t].src] = r.src]
    /\ pure' = [pure EXCEPT ![call[t].h] = FALSE, ![call[t].src] = FALSE]
    /\ pc' = [pc EXCEPT ![t] = "unlockGh"]
    /\ UNCHANGED <<lock, cons, lastOp, ret, out, added, nops, call>>
    /\ UNCHANGED aux

\* gh.m.Unlock()
UnlockGh(t) ==
    /\ pc[t] = "unlockGh"
    /\ lock' = Unlocked(call[t].h)
    /\ pc' = [pc EXCEPT ![t] = "unlockSrc"]
    /\ UNCHANGED <<hist, cons, lastOp, ret, out, added, pure, nops, call>>
    /\ UNCHANGED aux

\* src.m.Unlock() and the return of AddAll.
UnlockSrc(t) ==
    /\ pc[t] = "unlockSrc"
    /\ lock' = Unlocked(call[t].src)
    /\ pc' = [pc EXCEPT ![t] = "idle"]
    /\ lastOp' = Op("AddAll", call[t].h, call[t].src, 0, 0)
    /\ ret' = 0
    /\ out' = NoOutput
    /\ UNCHANGED <<hist, cons, added, pure, nops, call>>
    /\ UNCHANGED aux

NextConc ==
    \/ \E t \in Threads, h \in Hists, v \in ConcValues, c \in Counts :
          BeginAdd(t, h, v, c)
    \/ \E t \in Threads, h \in Hists : BeginReset(t, h)
    \/ \E t \in Threads, h \in Hists : BeginTotal(t, h)
    \/ \E t \in Threads, g \in Hists, s \in Hists : BeginAddAll(t, g, s)
    \/ \E t \in Threads : Lock(t)
    \/ \E t \in Threads : AddBody(t)
    \/ \E t \in Threads : ResetBody(t)
    \/ \E t \in Threads : TotalBody(t)
    \/ \E t \in Threads : Unlock(t)
    \/ \E t \in Threads : LockSrc(t)
    \/ \E t \in Threads : LockGh(t)
    \/ \E t \in Threads : AddAllBody(t)
    \/ \E t \in Threads : UnlockGh(t)
    \/ \E t \in Threads : UnlockSrc(t)

SpecConc == InitConc /\ [][NextConc]_vars

(***************************************************************************)
(* Specification SpecSnap: SpecConc with the readers taken apart.  Total   *)
(* and EmitGraph read the bins one at a time inside their critical         *)
(* section, one step per loop iteration, while other threads run Add,      *)
(* Reset and AddAll on the same histograms.                                *)
(***************************************************************************)
\* The locals of a Total or EmitGraph call: the loop index i, the running
\* totalCount (acc), maxCount, longestRange and the lines written so far.
ReadCall(op, h) ==
    [op |-> op, h |-> h, src |-> "", v |-> 0, c |-> 0, acc |-> 0,
     i |-> 1, maxCount |-> 0, longestRange |-> 0, lines |-> <<>>]

\* A thread enters Total or EmitGraph: what it does next is gh.m.Lock().
BeginRead(t, h, op) ==
    /\ pc[t] = "idle"
    /\ nops < MaxCalls
    /\ call' = [call EXCEPT ![t] = ReadCall(op, h)]
    /\ pc' = [pc EXCEPT ![t] = "lock"]
    /\ nops' = nops + 1
    /\ UNCHANGED <<hist, lock, cons, lastOp, ret, out, added, pure>>
    /\ UNCHANGED aux

\* One iteration of Total's loop: count += gh._bins[i]._count.
TotalRead(t) ==
    /\ pc[t] = "body" /\ call[t].op = "Total"
    /\ LET bins == hist[call[t].h].bins
           i == call[t].i
       IN  IF i > Len(bins)
           THEN /\ pc' = [pc EXCEPT ![t] = "unlock"]
                /\ UNCHANGED call
           ELSE /\ call' = [call EXCEPT
                              ![t].acc = (@ + bins[i].count) % Modulus,
                              ![t].i = i + 1]
                /\ UNCHANGED pc
    /\ UNCHANGED <<hist, lock, cons, lastOp, ret, out, added, pure, nops>>
    /\ UNCHANGED aux

\* One iteration of EmitGraph's first loop: totalCount, maxCount and
\* longestRange take bin i in; past the last bin the header is written.
EmitScan(t) ==
    /\ pc[t] = "body" /\ call[t].op = "EmitGraph"
    /\ LET bins == hist[call[t].h].bins
           i == call[t].i
           infLabel == IsHistogram(cons[call[t].h])
       IN  IF i > Len(bins)
           THEN /\ pc' = [pc EXCEPT ![t] = "emit"]
                /\ call' = [call EXCEPT ![t].i = 1]
           ELSE /\ call' = [call EXCEPT
                    ![t].acc = (@ + bins[i].count) % Modulus,
                    ![t].maxCount =
                        IF @ < bins[i].count THEN bins[i].count ELSE @,
                    ![t].longestRange =
                        IF bins[i].count > 0 /\ @ < rangeLen(bins[i], infLabel)
                        THEN rangeLen(bins[i], infLabel) ELSE @,
                    ![t].i = i + 1]
                /\ UNCHANGED pc
    /\ UNCHANGED <<hist, lock, cons, lastOp, ret, out, added, pure, nops>>
    /\ UNCHANGED aux

\* One iteration of EmitGraph's second loop: the line of bin i, if its
\* count is not zero.
EmitLine(t) ==
    /\ pc[t] = "emit"
    /\ LET bins == hist[call[t].h].bins
           i == call[t].i
           infLabel == IsHistogram(cons[call[t].h])
       IN  IF i > Len(bins)
           THEN /\ pc' = [pc EXCEPT ![t] = "unlockEmit"]
                /\ UNCHANGED call
           ELSE /\ call' = [call EXCEPT
                    ![t].lines =
                        IF bins[i].count = 0 THEN @
                        ELSE Append(@,
                               [bin     |-> i,
                                start   |-> bins[i].start,
                                end     |-> bins[i].end,
                                inf     |-> infLabel /\ bins[i].end = MaxUint64,
                                padding |-> call[t].longestRange
                                              - rangeLen(bins[i], infLabel),
                                count   |-> bins[i].count,
                                pct     |-> percent(bins[i].count, call[t].acc),
                                bar     |-> barWant(bins[i].count,
                                                    call[t].maxCount)]),
                    ![t].i = i + 1]
                /\ UNCHANGED pc
    /\ UNCHANGED <<hist, lock, cons, lastOp, ret, out, added, pure, nops>>
    /\ UNCHANGED aux

\* The text EmitGraph has written when its second loop is over.
Emitted(t) ==
    [name |-> hist[call[t].h].name, total |-> call[t].acc,
     lines |-> call[t].lines]

\* gh.m.Unlock() and the return of EmitGraph.
UnlockEmit(t) ==
    /\ pc[t] = "unlockEmit"
    /\ lock' = Unlocked(call[t].h)
    /\ pc' = [pc EXCEPT ![t] = "idle"]
    /\ lastOp' = Op("EmitGraph", call[t].h, "", 0, 0)
    /\ ret' = 0
    /\ out' = Emitted(t)
    /\ UNCHANGED <<hist, cons, added, pure, nops, call>>
    /\ UNCHANGED aux

NextSnap ==
    \/ \E t \in Threads, h \in Hists, v \in ConcValues, c \in Counts :
          BeginAdd(t, h, v, c)
    \/ \E t \in Threads, h \in Hists : BeginReset(t, h)
    \/ \E t \in Threads, g \in Hists, s \in Hists : BeginAddAll(t, g, s)
    \/ \E t \in Threads, h \in Hists, op \in {"Total", "EmitGraph"} :
          BeginRead(t, h, op)
    \/ \E t \in Threads : Lock(t)
    \/ \E t \in Threads : AddBody(t)
    \/ \E t \in Threads : ResetBody(t)
    \/ \E t \in Threads : TotalRead(t)
    \/ \E t \in Threads : EmitScan(t)
    \/ \E t \in Threads : EmitLine(t)
    \/ \E t \in Threads : Unlock(t)
    \/ \E t \in Threads : UnlockEmit(t)
    \/ \E t \in Threads : LockSrc(t)
    \/ \E t \in Threads : LockGh(t)
    \/ \E t \in Threads : AddAllBody(t)
    \/ \E t \in Threads : UnlockGh(t)
    \/ \E t \in Threads : UnlockSrc(t)

\* The histograms the threads find: built, and one Add(v, c) made on each
\* before the threads start (c = 0 leaves them empty).
InitSnap ==
    /\ \E p \in ConcPairs, v \in ConcValues, c \in {0, 1} :
          /\ cons = [h \in Hists |-> IF h = "a" THEN p[1] ELSE p[2]]
          /\ hist = [h \in Hists |->
                        Add(Construct(h, IF h = "a" THEN p[1] ELSE p[2]),
                            v, c)]
          /\ added = [h \in Hists |-> c]
    /\ lock = [h \in Hists |-> NoThread]
    /\ lastOp = NoOp
    /\ ret = 0
    /\ out = NoOutput
    /\ pure = [h \in Hists |-> TRUE]
    /\ nops = 0
    /\ pc = [t \in Threads |-> "idle"]
    /\ call = [t \in Threads |-> NoCall]
    /\ NoAux

SpecSnap == InitSnap /\ [][NextSnap]_vars

(***************************************************************************)
(* Specification SpecSync: SpecSnap's threads with CallSync and CallSyncEx *)
(* added.  The callback runs between gh.m.Lock() and gh.m.Unlock(), one    *)
(* step per operation it makes: the callback of CallSync reads the bins,   *)
(* the callback of CallSyncEx adds through the HistogramMutator it is      *)
(* handed.                                                                 *)
(***************************************************************************)
\* How many operations a callback makes.
CallbackLens == {1, 2}

\* The locals of a CallSync / CallSyncEx call: the callback makes n
\* operations and has made i of them; before is the histogram as the
\* callback found it and adds the (amount, count) pairs it has added.
SyncCall(op, h, n) ==
    [op |-> op, h |-> h, src |-> "", v |-> 0, c |-> 0, acc |-> 0,
     i |-> 0, n |-> n, before |-> NoHist, adds |-> <<>>]

\* gh.addUNLOCKED(dataPoint, count): Add without the lock.
addUNLOCKED(gh, dataPoint, count) ==
    [gh EXCEPT !.bins[findBin(gh.bins, dataPoint)] = incr(@, count)]

\* histogramMutator.Add
Mutator_Add(gh, dataPoint, count) == addUNLOCKED(gh, dataPoint, count)

\* Does histogramMutator.Add take gh.m?  It calls addUNLOCKED, not Add.
MutatorLocks_as_Add == TRUE
MutatorLocks == FALSE

\* A thread enters CallSync(f) or CallSyncEx(f): next is gh.m.Lock().
BeginCallSync(t, h, op, n) ==
    /\ pc[t] = "idle"
    /\ nops < MaxCalls
    /\ IsHistogram(cons[h])
    /\ call' = [call EXCEPT ![t] = SyncCall(op, h, n)]
    /\ pc' = [pc EXCEPT ![t] = "lock"]
    /\ nops' = nops + 1
    /\ UNCHANGED <<hist, lock, cons, lastOp, ret, out, added, pure>>
    /\ UNCHANGED aux

\* f() / f(&histogramMutator{gh}): the callback starts.
EnterCallback(t) ==
    /\ pc[t] = "body" /\ call[t].op \in {"CallSync", "CallSyncEx"}
    /\ call' = [call EXCEPT ![t].before = hist[call[t].h]]
    /\ pc' = [pc EXCEPT ![t] = "callback"]
    /\ UNCHANGED <<hist, lock, cons, lastOp, ret, out, added, pure, nops>>
    /\ UNCHANGED aux

\* The callback of CallSync reads the bins of gh.
CallbackRead(t) ==
    /\ pc[t] = "callback" /\ call[t].op = "CallSync"
    /\ call[t].i < call[t].n
    /\ call' = [call EXCEPT ![t].acc = Total(hist[call[t].h]),
                            ![t].i = @ + 1]
    /\ UNCHANGED <<hist, lock, cons, lastOp, ret, out, added, pure, nops, pc>>
    /\ UNCHANGED aux

\* The callback of CallSyncEx calls hist.Add(dataPoint, count) on its
\* HistogramMutator.
MutatorAdd(t, dataPoint, count) ==
    /\ pc[t] = "callback" /\ call[t].op = "CallSyncEx"
    /\ call[t].i < call[t].n
    /\ MutatorLocks => MutexFree(call[t].h)
    /\ hist' = [hist EXCEPT ![call[t].h] = Mutator_Add(@, dataPoint, count)]
    /\ added' = [added EXCEPT ![call[t].h] = @ + count]
    /\ call' = [call EXCEPT ![t].adds = Append(@, <<dataPoint, count>>),
                            ![t].i = @ + 1]
    /\ UNCHANGED <<lock, cons, lastOp, ret, out, pure, nops, pc>>
    /\ UNCHANGED aux

\* The callback returns: next is gh.m.Unlock().
ReturnCallback(t) ==
    /\ pc[t] = "callback"
    /\ call[t].i = call[t].n
    /\ pc' = [pc EXCEPT ![t] = "unlock"]
    /\ UNCHANGED <<hist, lock, cons, lastOp, ret, out, added, pure, nops, call>>
    /\ UNCHANGED aux

NextSync ==
    \/ \E t \in Threads, h \in Hists, v \in ConcValues : BeginAdd(t, h, v, 1)
    \/ \E t \in Threads, h \in Hists : BeginReset(t, h)
    \/ \E t \in Threads, g \in Hists, s \in Hists : BeginAddAll(t, g, s)
    \/ \E t \in Threads, h \in Hists, op \in {"Total", "EmitGraph"} :
          BeginRead(t, h, op)
    \/ \E t \in Threads, h \in Hists, op \in {"CallSync", "CallSyncEx"},
          n \in CallbackLens : BeginCallSync(t, h, op, n)
    \/ \E t \in Threads : Lock(t)
    \/ \E t \in Threads : AddBody(t)
    \/ \E t \in Threads : ResetBody(t)
    \/ \E t \in Threads : TotalRead(t)
    \/ \E t \in Threads : EmitScan(t)
    \/ \E t \in Threads : EmitLine(t)
    \/ \E t \in Threads : EnterCallback(t)
    \/ \E t \in Threads : CallbackRead(t)
    \/ \E t \in Threads, v \in ConcValues : MutatorAdd(t, v, 1)
    \/ \E t \in Threads : ReturnCallback(t)
    \/ \E t \in Threads : Unlock(t)
    \/ \E t \in Threads : UnlockEmit(t)
    \/ \E t \in Threads : LockSrc(t)
    \/ \E t \in Threads : LockGh(t)
    \/ \E t \in Threads : AddAllBody(t)
    \/ \E t \in Threads : UnlockGh(t)
    \/ \E t \in Threads : UnlockSrc(t)

\* CallSync and CallSyncEx are methods of Histogram alone.
InitSync ==
    /\ InitConc
    /\ \A h \in Hists : IsHistogram(cons[h])

SpecSync == InitSync /\ [][NextSync]_vars

(***************************************************************************)
(* Specification SpecSelf: one thread whose calls reach back into          *)
(* histograms it may already hold: gh.AddAll(src) with any gh and src, the *)
(* same histogram included, and gh.CallSync(f) with a callback f that      *)
(* calls Add or Total on any histogram, gh included.  LiveSelf adds the    *)
(* scheduling: a thread that can take a step does take it.                 *)
(***************************************************************************)
Caller == "t1"

\* The call the callback is making: inner.op on histogram inner.h.
Inner(op, h, v) == [op |-> op, h |-> h, v |-> v]
NoInner == Inner("none", "", 0)

\* The locals of a CallSync(f) whose callback makes n calls.
NestedCall(h, n) ==
    [op |-> "CallSync", h |-> h, src |-> "", v |-> 0, c |-> 0, acc |-> 0,
     i |-> 0, n |-> n, before |-> NoHist, adds |-> <<>>, inner |-> NoInner]

\* The thread enters gh.CallSync(f): next is gh.m.Lock().
BeginCallSyncNested(t, h, n) ==
    /\ pc[t] = "idle"
    /\ nops < MaxCalls
    /\ call' = [call EXCEPT ![t] = NestedCall(h, n)]
    /\ pc' = [pc EXCEPT ![t] = "lock"]
    /\ nops' = nops + 1
    /\ UNCHANGED <<hist, lock, cons, lastOp, ret, out, added, pure>>
    /\ UNCHANGED aux

\* The callback calls k.Add(v, 1) or k.Total(): next is k.m.Lock().
CallbackCall(t, op, k, v) ==
    /\ pc[t] = "callback" /\ call[t].op = "CallSync"
    /\ call[t].i < call[t].n
    /\ call' = [call EXCEPT ![t].inner = Inner(op, k, v)]
    /\ pc' = [pc EXCEPT ![t] = "innerLock"]
    /\ UNCHANGED <<hist, lock, cons, lastOp, ret, out, added, pure, nops>>
    /\ UNCHANGED aux

\* gh.m.Lock() of the Add or Total the callback called.
InnerLock(t) ==
    /\ pc[t] = "innerLock"
    /\ MutexFree(call[t].inner.h)
    /\ lock' = Locked(call[t].inner.h, t)
    /\ pc' = [pc EXCEPT ![t] = "innerBody"]
    /\ UNCHANGED <<hist, cons, lastOp, ret, out, added, pure, nops, call>>
    /\ UNCHANGED aux

InnerBody(t) ==
    /\ pc[t] = "innerBody"
    /\ LET k == call[t].inner.h
       IN  IF call[t].inner.op = "Add"
           THEN /\ hist' = [hist EXCEPT ![k] = Add(@, call[t].inner.v, 1)]
                /\ added' = [added EXCEPT ![k] = @ + 1]
                /\ UNCHANGED call
           ELSE /\ call' = [call EXCEPT ![t].acc = Total(hist[k])]
                /\ UNCHANGED <<hist, added>>
    /\ pc' = [pc EXCEPT ![t] = "innerUnlock"]
    /\ UNCHANGED <<lock, cons, lastOp, ret, out, pure, nops>>
    /\ UNCHANGED aux

\* gh.m.Unlock() and the return of the call into the callback.
InnerUnlock(t) ==
    /\ pc[t] = "innerUnlock"
    /\ lock' = Unlocked(call[t].inner.h)
    /\ call' = [call EXCEPT ![t].i = @ + 1, ![t].inner = NoInner]
    /\ pc' = [pc EXCEPT ![t] = "callback"]
    /\ UNCHANGED <<hist, cons, lastOp, ret, out, added, pure, nops>>
    /\ UNCHANGED aux

NextSelf ==
    \/ \E g \in Hists, s \in Hists : BeginAddAll(Caller, g, s)
    \/ LockSrc(Caller)
    \/ LockGh(Caller)
    \/ AddAllBody(Caller)
    \/ UnlockGh(Caller)
    \/ UnlockSrc(Caller)
    \/ \E h \in Hists, n \in CallbackLens : BeginCallSyncNested(Caller, h, n)
    \/ Lock(Caller)
    \/ EnterCallback(Caller)
    \/ \E op \in {"Add", "Total"}, k \in Hists, v \in ConcValues :
          CallbackCall(Caller, op, k, v)
    \/ InnerLock(Caller)
    \/ InnerBody(Caller)
    \/ InnerUnlock(Caller)
    \/ ReturnCallback(Caller)
    \/ Unlock(Caller)

SpecSelf == InitSync /\ [][NextSelf]_vars

LiveSelf == SpecSelf /\ WF_vars(NextSelf)

(***************************************************************************)
(* Specification SpecMap: Histograms, the map from names to histograms,    *)
(* with one caller.  hmap is the destination map and srcmap the source     *)
(* map of hmap.AddAll(srcmap); a name a map does not hold maps to NoHist.  *)
(***************************************************************************)
MaxMapOps == 3

engine == <<hist, lock, cons, ret, out, added, pure, pc, call, fold>>

Mismatch == "Mismatch in histogram creation parameters"

\* len(gh.Counts), gh.Ranges: the number of bins and the boundary pairs.
NumCounts(gh) == Len(gh.bins)
Ranges(gh) == [i \in 1..Len(gh.bins) |-> <<gh.bins[i].start, gh.bins[i].end>>]

\* v.CloneEmpty(): a histogram of the same name and boundaries, all counts 0.
CloneEmpty(v) ==
    Histogram(v.name, [i \in 1..Len(v.bins) |->
                          Bin(0, v.bins[i].start, v.bins[i].end)])

\* The orders in which range srcmap may visit the names the map holds.
PresentNames(m) == {n \in Names : m[n] # NoHist}
Orders(S) ==
    {o \in [1..Cardinality(S) -> S] :
        \A i, j \in 1..Cardinality(S) : i # j => o[i] # o[j]}

\* The first loop of Histograms.AddAll from the i-th name visited on: what
\* hmap has become and the error returned, NoError if the loop ran through.
RECURSIVE checkOrCreate(_, _, _, _)
checkOrCreate(dst, src, ord, i) ==
    IF i > Len(ord) THEN [hmap |-> dst, err |-> NoError]
    ELSE LET k == ord[i]
             v == src[k]
         IN  IF dst[k] = NoHist
             THEN checkOrCreate([dst EXCEPT ![k] = CloneEmpty(v)],
                                src, ord, i + 1)
             ELSE IF NumCounts(dst[k]) # NumCounts(v)
                     \/ Len(Ranges(dst[k])) # Len(Ranges(v))
             THEN [hmap |-> dst, err |-> Mismatch]
             ELSE IF \E j \in 1..Len(Ranges(v)) :
                        Ranges(dst[k])[j] # Ranges(v)[j]
             THEN [hmap |-> dst, err |-> Mismatch]
             ELSE checkOrCreate(dst, src, ord, i + 1)

\* The second loop: hmap[k].AddAll(v) for every name of srcmap.
RECURSIVE addAllEntries(_, _, _, _)
addAllEntries(dst, src, ord, i) ==
    IF i > Len(ord) THEN [hmap |-> dst, srcmap |-> src]
    ELSE LET k == ord[i]
             r == AddAll(dst[k], src[k])
         IN  addAllEntries([dst EXCEPT ![k] = r.gh],
                           [src EXCEPT ![k] = r.src], ord, i + 1)

\* hmap.AddAll(srcmap) when range srcmap visits the names in the order ord.
Histograms_AddAll(dst, src, ord) ==
    LET checked == checkOrCreate(dst, src, ord, 1)
    IN  IF checked.err # NoError
        THEN [hmap |-> checked.hmap, srcmap |-> src, err |-> checked.err]
        ELSE LET r == addAllEntries(checked.hmap, src, ord, 1)
             IN  [hmap |-> r.hmap, srcmap |-> r.srcmap, err |-> NoError]

\* The histograms the maps hold at first: none, or one just built.
MapShapes == {ShapeA, ShapeB, ShapeC}
MapEntries == {NoHist} \cup {Construct("h", p) : p \in MapShapes}

InitMap ==
    /\ hmap \in [Names -> MapEntries]
    /\ srcmap \in [Names -> MapEntries]
    /\ err = NoError
    /\ fold = NoFold
    /\ hist = [h \in Hists |-> NoHist]
    /\ cons = [h \in Hists |-> NoCons]
    /\ lock = [h \in Hists |-> NoThread]
    /\ lastOp = NoOp
    /\ ret = 0
    /\ out = NoOutput
    /\ added = [h \in Hists |-> 0]
    /\ pure = [h \in Hists |-> TRUE]
    /\ nops = 0
    /\ pc = [t \in Threads |-> "idle"]
    /\ call = [t \in Threads |-> NoCall]

\* hmap[n].Add(amount, count)
DstAdd(n, amount, count) ==
    /\ nops < MaxMapOps
    /\ hmap[n] # NoHist
    /\ hmap' = [hmap EXCEPT ![n] = Add(@, amount, count)]
    /\ lastOp' = Op("Add", "hmap", n, amount, count)
    /\ nops' = nops + 1
    /\ UNCHANGED <<srcmap, err>>
    /\ UNCHANGED engine

\* srcmap[n].Add(amount, count)
SrcAdd(n, amount, count) ==
    /\ nops < MaxMapOps
    /\ srcmap[n] # NoHist
    /\ srcmap' = [srcmap EXCEPT ![n] = Add(@, amount, count)]
    /\ lastOp' = Op("Add", "srcmap", n, amount, count)
    /\ nops' = nops + 1
    /\ UNCHANGED <<hmap, err>>
    /\ UNCHANGED engine

\* hmap.AddAll(srcmap); lastOp records how many names srcmap held (c) and
\* how many of them hmap lacked (v).
HistogramsAddAllCall(ord) ==
    /\ nops < MaxMapOps
    /\ LET r == Histograms_AddAll(hmap, srcmap, ord)
       IN  /\ hmap' = r.hmap
           /\ srcmap' = r.srcmap
           /\ err' = r.err
    /\ lastOp' = Op("Histograms.AddAll", "hmap", "srcmap",
                    Cardinality(PresentNames(srcmap) \ PresentNames(hmap)),
                    Cardinality(PresentNames(srcmap)))
    /\ nops' = nops + 1
    /\ UNCHANGED engine

NextMap ==
    \/ \E n \in Names, v \in ConcValues : DstAdd(n, v, 1)
    \/ \E n \in Names, v \in ConcValues : SrcAdd(n, v, 1)
    \/ \E ord \in Orders(PresentNames(srcmap)) : HistogramsAddAllCall(ord)

SpecMap == InitMap /\ [][NextMap]_vars

(***************************************************************************)
(* Specification SpecGraph: EmitGraph as a function of the bin counts.  A  *)
(* Histogram and a CbHistogram of three bins each start with counts that   *)
(* Add calls have put into their bins, from none to the largest a word     *)
(* holds, and EmitGraph is called on them.                                 *)
(***************************************************************************)
GraphCounts == {0, 1, 3, MaxUint64 - 1, MaxUint64}

\* gh after gh.Add(_bins[i]._start, cs[i]) for every bin i.
RECURSIVE AddEach(_, _, _)
AddEach(gh, cs, i) ==
    IF i > Len(gh.bins) THEN gh
    ELSE AddEach(Add(gh, gh.bins[i].start, cs[i]), cs, i + 1)

InitGraph ==
    /\ cons = [h \in Hists |-> IF h = "a" THEN ShapeA ELSE ShapeD]
    /\ \E cs \in [1..3 -> GraphCounts] :
          /\ hist = [h \in Hists |-> AddEach(Construct(h, cons[h]), cs, 1)]
          /\ added = [h \in Hists |-> cs[1] + cs[2] + cs[3]]
    /\ lock = [h \in Hists |-> NoThread]
    /\ lastOp = NoOp
    /\ ret = 0
    /\ out = NoOutput
    /\ pure = [h \in Hists |-> TRUE]
    /\ nops = 0
    /\ pc = [t \in Threads |-> "idle"]
    /\ call = [t \in Threads |-> NoCall]
    /\ NoAux

NextGraph == \E h \in Hists : EmitGraphCall(h)

SpecGraph == InitGraph /\ [][NextGraph]_vars

(***************************************************************************)
(* Vocabulary of the properties.                                           *)
(***************************************************************************)
CountsOf(gh) == [i \in 1..Len(gh.bins) |-> gh.bins[i].count]
BoundsOf(gh) == [i \in 1..Len(gh.bins) |-> <<gh.bins[i].start, gh.bins[i].end>>]
SameBoundaries(g, s) == BoundsOf(g) = BoundsOf(s)

SortedByStart(bins) ==
    \A i \in 1..Len(bins), j \in 1..Len(bins) :
        i < j => bins[i].start <= bins[j].start
StartsAtZero(bins) == Len(bins) >= 1 /\ bins[1].start = 0
Contiguous(bins) ==
    \A i \in 1..(Len(bins) - 1) : bins[i].end = bins[i + 1].start
EndsAtMax(bins) == Len(bins) >= 1 /\ bins[Len(bins)].end = MaxUint64

WellFormed(bins) ==
    SortedByStart(bins) /\ StartsAtZero(bins) /\ Contiguous(bins)
    /\ EndsAtMax(bins)

\* The largest boundary a construction generates, computed in unbounded
\* arithmetic: the construction stays inside the word iff it is <= MaxUint64.
RECURSIVE GrownBoundary(_, _, _)
GrownBoundary(w, f, k) ==
    IF k = 0 THEN w ELSE (GrownBoundary(w, f, k - 1) * f[1]) \div f[2]

LargestBoundary(p) ==
    CASE p.kind = "mult" /\ p.factor[1] = 0 -> (p.numBins + 1) * p.binFirst
      [] p.kind = "mult" /\ p.factor[1] # 0 ->
            GrownBoundary(p.binFirst, p.factor, p.numBins)
      [] p.kind = "exp" ->
            LET g == IF LeqOne(p.factor) THEN Two ELSE p.factor
            IN  IntPow(g[1], p.numBins) \div IntPow(g[2], p.numBins)
      [] p.kind = "cb" -> IntPow(2, p.numBins)
      [] OTHER -> 0

\* The constructions the documentation allows.
ValidConstruction(p) ==
    /\ p.kind \in {"mult", "exp", "cb"}
    /\ p.numBins >= 1
    /\ p.kind = "mult" =>
          /\ p.binFirst >= 1
          /\ p.factor[1] = 0 \/ p.factor[1] > p.factor[2]
    /\ LargestBoundary(p) <= MaxUint64

AllValid == \A h \in Hists : ValidConstruction(cons[h])

(***************************************************************************)
(* C1.  Total() is the sum of the count arguments of the Add calls made    *)
(* since construction or the last Reset, as long as that sum fits the      *)
(* word, whatever the values added were: in every state for the total the  *)
(* histogram holds, and for the value a Total() call has just returned.    *)
(***************************************************************************)
C1_TotalIsSumOfCounts ==
    \A h \in Hists :
        (pure[h] /\ added[h] <= MaxUint64) =>
            /\ Total(hist[h]) = added[h]
            /\ lastOp = Op("Total", h, "", 0, 0) => ret = added[h]

C1_Witness ==
    \E h \in Hists :
        /\ lastOp = Op("Total", h, "", 0, 0)
        /\ pure[h] /\ added[h] = 2 /\ ret = 2
        /\ \E i, j \in 1..Len(hist[h].bins) :
              i # j /\ hist[h].bins[i].count > 0 /\ hist[h].bins[j].count > 0

(***************************************************************************)
(* C2.  Add(value, count) on a well-formed histogram adds count (in the    *)
(* word) to the one bin with start <= value < end, the last bin when value *)
(* is MaxUint64, and leaves every other bin's count as it was.             *)
(***************************************************************************)
TargetBin(bins, v, i) ==
    IF v = MaxUint64 THEN i = Len(bins)
    ELSE /\ bins[i].start <= v /\ v < bins[i].end
         /\ \A j \in 1..Len(bins) :
               (bins[j].start <= v /\ v < bins[j].end) => j = i

C2_AddHitsTheAcceptingBin ==
    [][(lastOp'.op = "Add" /\ WellFormed(hist[lastOp'.h].bins)) =>
          LET h == lastOp'.h
              v == lastOp'.v
              c == lastOp'.c
          IN  /\ AddCall(h, v, c)
              /\ \E i \in 1..Len(hist[h].bins) :
                    /\ TargetBin(hist[h].bins, v, i)
                    /\ hist'[h].bins =
                          [hist[h].bins EXCEPT
                              ![i].count = (@ + c) % Modulus]]_vars

C2_Witness ==
    \E h \in Hists :
        /\ lastOp.op = "Add" /\ lastOp.h = h
        /\ WellFormed(hist[h].bins)
        /\ Len(hist[h].bins) >= 3
        /\ hist[h].bins[2].count > 0
        /\ hist[h].bins[Len(hist[h].bins)].count > 0

(***************************************************************************)
(* C3.  Every valid construction leaves a bin array sorted ascending by    *)
(* start, whose first bin starts at 0, in which each bin ends where the    *)
(* next starts, and whose last bin ends at MaxUint64.                      *)
(***************************************************************************)
C3_ConstructionInvariants ==
    \A h \in Hists :
        (hist[h] # NoHist /\ ValidConstruction(cons[h])) =>
            /\ SortedByStart(hist[h].bins)
            /\ StartsAtZero(hist[h].bins)
            /\ Contiguous(hist[h].bins)
            /\ EndsAtMax(hist[h].bins)

C3_Witness ==
    \E h \in Hists :
        /\ lastOp = Op("NewHistogram", h, "", 0, 0)
        /\ ValidConstruction(cons[h])
        /\ cons[h].factor = <<3, 2>> /\ cons[h].numBins >= 2
        /\ Len(hist[h].bins) = cons[h].numBins + 2

(***************************************************************************)
(* C4.  When gh and src have identical boundaries, gh.AddAll(src) leaves   *)
(* in every bin of gh its previous count plus the count of src's bin (the  *)
(* sum taken in the word, as the code's uint64 addition takes it).         *)
(***************************************************************************)
C4_AddAllAddsSrcCounts ==
    [][(/\ lastOp'.op = "AddAll"
        /\ SameBoundaries(hist[lastOp'.h], hist[lastOp'.src])) =>
          LET g == lastOp'.h
              s == lastOp'.src
          IN  /\ AddAllCall(g, s)
              /\ CountsOf(hist'[g]) =
                    [i \in 1..Len(hist[g].bins) |->
                        (hist[g].bins[i].count + hist[s].bins[i].count)
                            % Modulus]]_vars

C4_Witness ==
    /\ lastOp.op = "AddAll"
    /\ cons[lastOp.h] = cons[lastOp.src]
    /\ added[lastOp.h] > 0 /\ added[lastOp.src] > 0
    /\ Total(hist[lastOp.h]) = added[lastOp.h] + added[lastOp.src]

(***************************************************************************)
(* C5.  gh.AddAll(src) leaves every bin count of src as it was (stated for *)
(* histograms that valid constructions built).                             *)
(***************************************************************************)
C5_AddAllLeavesSrcCounts ==
    [][(lastOp'.op = "AddAll" /\ AllValid) =>
          /\ AddAllCall(lastOp'.h, lastOp'.src)
          /\ CountsOf(hist'[lastOp'.src]) = CountsOf(hist[lastOp'.src])]_vars

(***************************************************************************)
(* C6.  When gh and src differ in boundaries (in the number of bins, or in *)
(* some start/end pair), gh.AddAll(src) changes no bin count of gh and no  *)
(* bin count of src (stated for histograms that valid constructions        *)
(* built).                                                                 *)
(***************************************************************************)
C6_MismatchedAddAllIsNoOp ==
    [][(/\ lastOp'.op = "AddAll"
        /\ AllValid
        /\ ~SameBoundaries(hist[lastOp'.h], hist[lastOp'.src])) =>
          /\ AddAllCall(lastOp'.h, lastOp'.src)
          /\ CountsOf(hist'[lastOp'.h]) = CountsOf(hist[lastOp'.h])
          /\ CountsOf(hist'[lastOp'.src]) = CountsOf(hist[lastOp'.src])]_vars

(***************************************************************************)
(* C7.  Right after Reset() every bin count is 0 and Total() is 0,         *)
(* whatever Add and AddAll calls came before.                              *)
(***************************************************************************)
C7_ResetZeroes ==
    \A h \in Hists :
        lastOp = Op("Reset", h, "", 0, 0) =>
            /\ \A i \in 1..Len(hist[h].bins) : hist[h].bins[i].count = 0
            /\ Total(hist[h]) = 0

C7_Witness ==
    \E h \in Hists, o \in Hists :
        /\ lastOp = Op("Reset", h, "", 0, 0)
        /\ o # h /\ ~pure[o] /\ Total(hist[o]) > 0
        /\ nops = 3

(***************************************************************************)
(* C8.  The number of bins, every bin's start and end, and the name are in *)
(* every reachable state what the construction made them (stated for       *)
(* histograms that valid constructions built).                             *)
(***************************************************************************)
C8_BoundariesImmutable ==
    AllValid =>
        \A h \in Hists :
            /\ BoundsOf(hist[h]) = BoundsOf(Construct(h, cons[h]))
            /\ hist[h].name = Construct(h, cons[h]).name

(***************************************************************************)
(* C9.  Concurrent Add calls lose no increment: whenever every call has    *)
(* returned, each histogram that only Add calls have touched (since        *)
(* construction or its last Reset) holds, summed over its bins, the sum of *)
(* the count arguments of those calls (in the word).                       *)
(***************************************************************************)
AllReturned == \A t \in Threads : pc[t] = "idle"

C9_NoLostIncrement ==
    AllReturned =>
        \A h \in Hists : pure[h] => Total(hist[h]) = added[h] % Modulus

C9_Witness ==
    /\ AllReturned
    /\ \E h \in Hists :
          /\ \A t \in Threads : call[t].op = "Add" /\ call[t].h = h
          /\ pure[h] /\ added[h] = 2
          /\ hist[h].bins[1].count = 2

(***************************************************************************)
(* C10.  Two threads running a.AddAll(b) and b.AddAll(a) on same-shaped    *)
(* histograms never reach a state in which each holds one histogram's lock *)
(* and waits for the other's.                                              *)
(***************************************************************************)
HoldsAndWaits(t) ==
    /\ pc[t] = "lockGh"
    /\ lock[call[t].src] = t
    /\ lock[call[t].h] \notin {NoThread, t}

C10_NoLockCycle ==
    ~ \E t \in Threads, u \in Threads :
          /\ t # u
          /\ HoldsAndWaits(t) /\ HoldsAndWaits(u)
          /\ call[u].h = call[t].src /\ call[u].src = call[t].h
          /\ cons[call[t].h] = cons[call[t].src]

(***************************************************************************)
(* C11.  Total() and EmitGraph read a consistent snapshot.  When a Total   *)
(* call has read its last bin and still holds the lock, the sum it has     *)
(* accumulated is the sum of the bin counts of that very state, an instant *)
(* between the call's start and its return, whatever Add, Reset and AddAll *)
(* calls other threads have in flight; the same holds for the total in     *)
(* EmitGraph's header, the whole text is the rendering of that state, and  *)
(* the counts in its data lines sum to the header's total.                 *)
(***************************************************************************)
RECURSIVE sumLineCounts(_, _)
sumLineCounts(lines, i) ==
    IF i > Len(lines) THEN 0
    ELSE (lines[i].count + sumLineCounts(lines, i + 1)) % Modulus

C11_ConsistentSnapshot ==
    \A t \in Threads :
        /\ (pc[t] = "unlock" /\ call[t].op = "Total") =>
              call[t].acc = Total(hist[call[t].h])
        /\ pc[t] = "unlockEmit" =>
              /\ call[t].acc = Total(hist[call[t].h])
              /\ Emitted(t) = EmitGraph(hist[call[t].h],
                                        IsHistogram(cons[call[t].h]))
              /\ sumLineCounts(call[t].lines, 1) = call[t].acc

C11_Witness ==
    \E t \in Threads, u \in Threads :
        /\ t # u
        /\ pc[t] = "unlockEmit" /\ call[t].acc > 0
        /\ Len(call[t].lines) >= 1
        /\ pc[u] = "lock" /\ call[u].h = call[t].h
        /\ call[u].op \in {"Add", "Reset"}

(***************************************************************************)
(* C12.  After k >= 1 calls gh.AddAll(src) in a row on histograms built    *)
(* with the same parameters, every bin of gh holds its count from before   *)
(* the first call plus k times the count src's bin had before the first    *)
(* call (in the word), and a Total() that follows returns the sum of       *)
(* these.                                                                  *)
(***************************************************************************)
RECURSIVE sumSeq(_, _)
sumSeq(counts, i) ==
    IF i > Len(counts) THEN 0 ELSE counts[i] + sumSeq(counts, i + 1)

C12_KFolds ==
    (fold.k >= 1 /\ AllValid /\ cons[fold.gh] = cons[fold.src]) =>
        /\ \A i \in 1..Len(hist[fold.gh].bins) :
              hist[fold.gh].bins[i].count =
                  (fold.gh0[i] + fold.k * fold.src0[i]) % Modulus
        /\ lastOp = Op("Total", fold.gh, "", 0, 0) =>
              ret = (sumSeq(fold.gh0, 1) + fold.k * sumSeq(fold.src0, 1))
                        % Modulus

(***************************************************************************)
(* C13.  When hmap.AddAll(srcmap) returns no error, then for every name of *)
(* srcmap hmap holds a histogram with the boundaries of srcmap's entry     *)
(* whose bin counts are the counts hmap's entry had before (zero if hmap   *)
(* lacked the name) plus the counts of srcmap's entry (in the word), and   *)
(* hmap's entries under other names are what they were.                    *)
(***************************************************************************)
C13_MapAddAllAddsEntries ==
    [][(lastOp'.op = "Histograms.AddAll" /\ err' = NoError) =>
          \A n \in Names :
              IF srcmap[n] = NoHist THEN hmap'[n] = hmap[n]
              ELSE /\ hmap'[n] # NoHist
                   /\ BoundsOf(hmap'[n]) = BoundsOf(srcmap[n])
                   /\ CountsOf(hmap'[n]) =
                         [i \in 1..Len(srcmap[n].bins) |->
                             ((IF hmap[n] = NoHist THEN 0
                               ELSE hmap[n].bins[i].count)
                              + srcmap[n].bins[i].count) % Modulus]]_vars

C13_Witness ==
    /\ lastOp.op = "Histograms.AddAll" /\ err = NoError
    /\ lastOp.c = 2 /\ lastOp.v = 1
    /\ \E n \in Names : hmap[n] # NoHist /\ hmap[n].bins[1].count = 2

(***************************************************************************)
(* C14.  When some entry of srcmap and hmap's entry of the same name       *)
(* differ in boundaries, hmap.AddAll(srcmap) returns the mismatch error    *)
(* and leaves hmap as it was, with no histogram put under a name it        *)
(* lacked and no count changed, in whatever order the names are visited.   *)
(***************************************************************************)
Incompatible(dst, src) ==
    \E n \in Names :
        /\ dst[n] # NoHist /\ src[n] # NoHist
        /\ ~SameBoundaries(dst[n], src[n])

C14_MismatchLeavesMapUntouched ==
    [][(lastOp'.op = "Histograms.AddAll" /\ Incompatible(hmap, srcmap)) =>
          /\ err' = Mismatch
          /\ hmap' = hmap]_vars

(***************************************************************************)
(* C15.  While the callback of CallSync(f) or CallSyncEx(f) runs on a      *)
(* histogram, the calling thread holds that histogram's lock, no other     *)
(* thread stands inside Add, Reset, Total, AddAll or EmitGraph on it, and  *)
(* no step but the callback's own changes its bins: nothing of another     *)
(* thread takes effect between the callback's start and its end.           *)
(***************************************************************************)
InCallback(t) == pc[t] = "callback"

\* Thread u stands between a Lock and the Unlock of histogram h.
Inside(u, h) ==
    \/ pc[u] \in {"body", "callback", "emit", "unlock", "unlockEmit"}
          /\ call[u].h = h
    \/ pc[u] \in {"merge", "unlockGh"} /\ h \in {call[u].h, call[u].src}
    \/ pc[u] \in {"lockGh", "unlockSrc"} /\ call[u].src = h

C15_CallbackIsAtomic ==
    [][\A t \in Threads :
          InCallback(t) =>
              /\ lock[call[t].h] = t
              /\ \A u \in Threads \ {t} : ~Inside(u, call[t].h)
              /\ hist'[call[t].h] # hist[call[t].h] =>
                    /\ Len(call'[t].adds) = Len(call[t].adds) + 1
                    /\ MutatorAdd(t, call'[t].adds[Len(call'[t].adds)][1],
                                     call'[t].adds[Len(call'[t].adds)][2])]_vars

C15_Witness ==
    \E t \in Threads, u \in Threads :
        /\ t # u
        /\ InCallback(t) /\ call[t].op = "CallSyncEx" /\ call[t].i = 2
        /\ pc[u] = "lock" /\ call[u].h = call[t].h
        /\ call[u].op \in {"Add", "Reset", "Total", "EmitGraph"}

(***************************************************************************)
(* C16.  When the callback of CallSyncEx has returned, every bin of the    *)
(* histogram holds the count the callback found plus the counts of the     *)
(* mutator's Add calls whose value the bin accepts (in the word), which is *)
(* what the same Add calls on the histogram leave; and the callback is     *)
(* never held up by the histogram's own lock: while it has an Add to make  *)
(* the Add can be made, so CallSyncEx comes to its Unlock and returns.     *)
(***************************************************************************)
RECURSIVE countsFor(_, _, _, _)
countsFor(bins, adds, i, j) ==
    IF j > Len(adds) THEN 0
    ELSE (IF TargetBin(bins, adds[j][1], i) THEN adds[j][2] ELSE 0)
            + countsFor(bins, adds, i, j + 1)

C16_MutatorAddsLikeAdd ==
    \A t \in Threads :
        /\ (pc[t] = "unlock" /\ call[t].op = "CallSyncEx") =>
              /\ BoundsOf(hist[call[t].h]) = BoundsOf(call[t].before)
              /\ \A i \in 1..Len(hist[call[t].h].bins) :
                    hist[call[t].h].bins[i].count =
                        (call[t].before.bins[i].count
                           + countsFor(call[t].before.bins, call[t].adds, i, 1))
                            % Modulus
        /\ (InCallback(t) /\ call[t].op = "CallSyncEx"
                /\ call[t].i < call[t].n) =>
              ENABLED MutatorAdd(t, 0, 1)

C16_Witness ==
    \E t \in Threads :
        /\ pc[t] = "unlock" /\ call[t].op = "CallSyncEx"
        /\ Len(call[t].adds) = 2
        /\ call[t].adds[1][1] # call[t].adds[2][1]
        /\ Total(call[t].before) > 0
        /\ Total(hist[call[t].h]) = Total(call[t].before) + 2

(***************************************************************************)
(* C17.  From every reachable state, for every value v and every count c   *)
(* with 2c inside the word, Add(v, c) followed by Add(v, c) leaves the     *)
(* bins that a single Add(v, 2c) leaves.                                   *)
(***************************************************************************)
HalfCounts == {1, MaxUint64 \div 2}
AddValues == {0, 2, MaxUint64}

C17_AddIsAdditive ==
    \A h \in Hists, v \in AddValues, c \in HalfCounts :
        2 * c <= MaxUint64 =>
            Add(Add(hist[h], v, c), v, c) = Add(hist[h], v, 2 * c)

C17_Witness ==
    \E h \in Hists, i \in 1..3 :
        /\ lastOp.op = "Add" /\ lastOp.h = h /\ lastOp.c = 1
        /\ nops = 2 /\ pure[h] /\ added[h] = 2
        /\ i <= Len(hist[h].bins)
        /\ hist[h].bins[i].count = 2
        /\ Add(Reset(hist[h]), lastOp.v, 2) = hist[h]

(***************************************************************************)
(* C18.  A histogram built with numBins >= 1 and a first width >= 1 whose  *)
(* generated boundaries all stay below MaxUint64 has exactly numBins + 2   *)
(* bins: the bin from 0 to the first generated start, the numBins          *)
(* generated bins, and the bin from the last generated end to MaxUint64;   *)
(* NewHistogram(5, 10, 2.0) has the starts 0, 10, 20, 40, 80, 160, 320.    *)
(* The statement as first made asks only that no boundary reaches          *)
(* 2^64, which lets the last generated end be MaxUint64 itself.            *)
(***************************************************************************)
\* The k-th boundary the generator of construction p yields (k = 0 is the
\* first generated start), in unbounded arithmetic.
BoundaryAt(p, k) ==
    CASE p.kind = "mult" /\ p.factor[1] = 0 -> (k + 1) * p.binFirst
      [] p.kind = "mult" /\ p.factor[1] # 0 ->
            GrownBoundary(p.binFirst, p.factor, k)
      [] OTHER ->
            LET g == IF p.kind = "cb" \/ LeqOne(p.factor) THEN Two
                     ELSE p.factor
            IN  IntPow(g[1], k) \div IntPow(g[2], k)

\* numBins >= 1, first width >= 1, every generated boundary <= limit.
BuiltWithin(p, limit) ==
    /\ p.kind \in {"mult", "exp", "cb"}
    /\ p.numBins >= 1
    /\ p.kind = "mult" => p.binFirst >= 1
    /\ \A k \in 0..p.numBins : BoundaryAt(p, k) <= limit

\* The floor bin, the generated bins and the sentinel bin, and no other.
FloorGeneratedSentinel(gh, p) ==
    /\ Len(gh.bins) = p.numBins + 2
    /\ gh.bins[1] = Bin(0, 0, BoundaryAt(p, 0))
    /\ \A k \in 1..p.numBins :
          gh.bins[k + 1] = Bin(0, BoundaryAt(p, k - 1), BoundaryAt(p, k))
    /\ gh.bins[p.numBins + 2] = Bin(0, BoundaryAt(p, p.numBins), MaxUint64)

TestAddShape == Cons("mult", 5, 10, <<2, 1>>, 0)
TestAddStarts == <<0, 10, 20, 40, 80, 160, 320>>

StartsOf(gh) == [i \in 1..Len(gh.bins) |-> gh.bins[i].start]

\* As first made: no boundary reaches 2^64.
C18_NumBinsPlusTwo ==
    \A h \in Hists :
        (hist[h] # NoHist /\ BuiltWithin(cons[h], MaxUint64)) =>
            FloorGeneratedSentinel(hist[h], cons[h])

\* As amended: every generated boundary is below MaxUint64.
C18_NumBinsPlusTwoBelowMax ==
    \A h \in Hists :
        (hist[h] # NoHist /\ BuiltWithin(cons[h], MaxUint64 - 1)) =>
            /\ FloorGeneratedSentinel(hist[h], cons[h])
            /\ [cons[h] EXCEPT !.oor = 0] = TestAddShape =>
                  StartsOf(hist[h]) = TestAddStarts

C18_Witness ==
    \E h \in Hists :
        /\ lastOp = Op("NewHistogram", h, "", 0, 0)
        /\ [cons[h] EXCEPT !.oor = 0] = TestAddShape
        /\ BuiltWithin(cons[h], MaxUint64 - 1)
        /\ StartsOf(hist[h]) = TestAddStarts


(***************************************************************************)
(* C19.  EmitGraph writes the header with the histogram's name and its     *)
(* total (the sum of all bin counts in the word), then exactly one line    *)
(* for each bin whose count is not zero and none for a bin whose count is  *)
(* zero, in the order of the bins, which is ascending boundary order for   *)
(* a well-formed bin array, each line showing that bin's boundaries and    *)
(* its raw count; when every count is zero the header is all there is.     *)
(***************************************************************************)
NonZeroBins(gh) == {i \in 1..Len(gh.bins) : gh.bins[i].count # 0}

C19_OneLinePerNonZeroBin ==
    lastOp.op = "EmitGraph" =>
        LET gh == hist[lastOp.h]
            lines == out.lines
        IN  /\ out.name = gh.name
            /\ out.total = sumSeq(CountsOf(gh), 1) % Modulus
            /\ Len(lines) = Cardinality(NonZeroBins(gh))
            /\ {lines[k].bin : k \in 1..Len(lines)} = NonZeroBins(gh)
            /\ \A k \in 1..Len(lines) :
                  /\ lines[k].count = gh.bins[lines[k].bin].count
                  /\ lines[k].start = gh.bins[lines[k].bin].start
                  /\ lines[k].end = gh.bins[lines[k].bin].end
            /\ \A k \in 1..Len(lines), l \in 1..Len(lines) :
                  k < l => /\ lines[k].bin < lines[l].bin
                           /\ WellFormed(gh.bins) =>
                                 lines[k].start < lines[l].start
            /\ (\A i \in 1..Len(gh.bins) : gh.bins[i].count = 0) =>
                  lines = <<>>

\* EmitGraph has skipped an empty bin between two bins it printed.
C19_Witness ==
    /\ lastOp.op = "EmitGraph"
    /\ Len(out.lines) = 2
    /\ out.lines[1].bin = 1 /\ out.lines[2].bin = 3
    /\ hist[lastOp.h].bins[2].count = 0
    /\ out.lines[1].count # out.lines[2].count

(***************************************************************************)
(* C20.  In every line EmitGraph writes, the bar has exactly               *)
(* floor(30 * binCount / maxCount) glyphs, maxCount being the largest bin  *)
(* count of the histogram: the bar of a largest bin has 30 glyphs and      *)
(* every bar has between 0 and 30.                                         *)
(***************************************************************************)
LargestCount(gh) ==
    CHOOSE m \in {gh.bins[i].count : i \in 1..Len(gh.bins)} :
        \A i \in 1..Len(gh.bins) : gh.bins[i].count <= m

C20_BarIsFloorOfShare ==
    lastOp.op = "EmitGraph" =>
        \A k \in 1..Len(out.lines) :
            LET line == out.lines[k]
                maxBucketCount == LargestCount(hist[lastOp.h])
            IN  /\ line.bar = (BarLen * line.count) \div maxBucketCount
                /\ line.count = maxBucketCount => line.bar = BarLen
                /\ line.bar >= 0 /\ line.bar <= BarLen

(***************************************************************************)
(* C21.  EmitGraph on a histogram with exactly one bin whose count is not  *)
(* zero writes exactly one line, and that line shows a share of 100.00%    *)
(* and a cumulative percentage of 100.00%.                                 *)
(***************************************************************************)
C21_SingleBinIsAllOfIt ==
    (lastOp.op = "EmitGraph"
        /\ Cardinality(NonZeroBins(hist[lastOp.h])) = 1) =>
        /\ Len(out.lines) = 1
        /\ out.lines[1].pct = 10000
        /\ "cumulative" \in DOMAIN out.lines[1]
        /\ out.lines[1].cumulative = 10000

(***************************************************************************)
(* C22.  Every bin of a constructed histogram is non-empty, start < end,   *)
(* for every construction with numBins >= 1, first width >= 1 and growth   *)
(* factor or base > 1.0, small widths and factors included.  Stated here   *)
(* for the constructions whose boundaries all fit the word, so that no     *)
(* out-of-range conversion is involved.                                    *)
(***************************************************************************)
GrowsAboveOne(p) == p.factor[1] > p.factor[2]

C22_EveryBinNonEmpty ==
    \A h \in Hists :
        (hist[h] # NoHist /\ BuiltWithin(cons[h], MaxUint64 - 1)
            /\ GrowsAboveOne(cons[h])) =>
            \A i \in 1..Len(hist[h].bins) :
                hist[h].bins[i].start < hist[h].bins[i].end

(***************************************************************************)
(* C23.  A construction whose completed bin array violates the histogram   *)
(* invariants (a gap, an overlap or a start that does not ascend, as with  *)
(* NewHistogram and a growth factor strictly between 0 and 1) ends in a    *)
(* fatal construction error: a histogram that a constructor has returned   *)
(* starts at 0, is contiguous, ends at MaxUint64, has ascending starts,    *)
(* and passes verify.  Stated for the constructions whose boundaries all   *)
(* fit the word, so that no out-of-range conversion is involved.           *)
(***************************************************************************)
Returned(h) == hist[h] # NoHist

C23_NoInvalidHistogramReturned ==
    \A h \in Hists :
        (Returned(h) /\ BuiltWithin(cons[h], MaxUint64 - 1)) =>
            WellFormed(hist[h].bins) /\ verify(hist[h].bins)

(***************************************************************************)
(* C24.  In NewExpHistogram any base <= 1.0, and in NewHistogram any       *)
(* growth factor <= 1.0 other than the constant-width 0.0, yields exactly  *)
(* the bin boundaries that the value 2.0 yields with the same remaining    *)
(* parameters.                                                             *)
(***************************************************************************)
WithTwo(h) == Construct(h, [cons[h] EXCEPT !.factor = Two])

C24_LowFactorMeansTwo ==
    \A h \in Hists :
        (Returned(h) /\ LeqOne(cons[h].factor)
            /\ \/ cons[h].kind = "exp"
               \/ cons[h].kind = "mult" /\ cons[h].factor[1] # 0) =>
            BoundsOf(hist[h]) = BoundsOf(WithTwo(h))

\* As amended: the default is NewExpHistogram's alone.
C24_LowBaseMeansTwo ==
    \A h \in Hists :
        (Returned(h) /\ LeqOne(cons[h].factor) /\ cons[h].kind = "exp") =>
            BoundsOf(hist[h]) = BoundsOf(WithTwo(h))

C24_Witness ==
    \E h \in Hists :
        /\ lastOp = Op("NewExpHistogram", h, "", 0, 0)
        /\ cons[h].factor = <<1, 2>> /\ cons[h].numBins = 2
        /\ BoundsOf(hist[h]) = <<<<0, 1>>, <<1, 2>>, <<2, 4>>, <<4, MaxUint64>>>>

(***************************************************************************)
(* C25.  The Add of the mutator performs its find-then-increment while     *)
(* holding the histogram's lock, which it takes itself by delegating to    *)
(* the locked Add, so that no mutator Add interleaves with another         *)
(* thread's Add, Reset, Total, AddAll or EmitGraph on the same histogram.  *)
(***************************************************************************)
\* Thread t makes a mutator Add in this step.
MutatorAddStep(t) ==
    /\ InCallback(t) /\ call[t].op = "CallSyncEx"
    /\ Len(call'[t].adds) = Len(call[t].adds) + 1

C25_MutatorAddTakesLock ==
    [][\A t \in Threads :
          MutatorAddStep(t) =>
              /\ MutatorLocks
              /\ lock[call[t].h] = t
              /\ \A u \in Threads \ {t} : ~Inside(u, call[t].h)]_vars

\* As amended: the mutator's Add takes no lock; the lock it runs under is
\* the one CallSyncEx holds around the callback.
C25_MutatorAddUnderCallersLock ==
    [][\A t \in Threads :
          MutatorAddStep(t) =>
              /\ ~MutatorLocks
              /\ lock[call[t].h] = t /\ lock' = lock
              /\ \A u \in Threads \ {t} : ~Inside(u, call[t].h)
              /\ hist'[call[t].h] =
                    addUNLOCKED(hist[call[t].h],
                                call'[t].adds[Len(call'[t].adds)][1],
                                call'[t].adds[Len(call'[t].adds)][2])]_vars

\* A mutator Add has been made while another thread waits to Add to the
\* same histogram.
C25_Witness ==
    \E t \in Threads, u \in Threads :
        /\ t # u
        /\ InCallback(t) /\ call[t].op = "CallSyncEx"
        /\ Len(call[t].adds) = 1
        /\ hist[call[t].h] # call[t].before
        /\ pc[u] = "lock" /\ call[u].op = "Add" /\ call[u].h = call[t].h

(***************************************************************************)
(* C26.  No operation blocks forever on the lock of its own histogram: a   *)
(* call a single thread has begun, h.AddAll(h) and an h.CallSync whose     *)
(* callback calls h.Add or h.Total included, eventually returns.           *)
(***************************************************************************)
InCall(t) == pc[t] # "idle"

C26_EveryCallReturns == InCall(Caller) ~> ~InCall(Caller)

=============================================================================
